---- MODULE Spec2Model ----
(***************************************************************************)
(* Model of goose-cli's session output layer:                              *)
(*   - MarkdownBuffer           (session/streaming_buffer.rs)              *)
(*   - SessionOutput spacing    (session/output.rs, handle_spacing and the *)
(*                               render operations that call it)           *)
(*   - shorten_path             (session/output.rs)                        *)
(* Text is a sequence of characters; a character is a one-element token.   *)
(* The token "U2" stands for a character whose UTF-8 encoding takes two    *)
(* bytes (such as U+00E9); every other token is an ASCII character.        *)
(***************************************************************************)
EXTENDS Integers, Sequences, FiniteSets, TLC

VARIABLES
    \* MarkdownBuffer
    buffer,      \* MarkdownBuffer.buffer
    op,          \* the last MarkdownBuffer operation: "new", "push", "flush"
    chunk,       \* the argument of the last push
    ret,         \* the value the last operation returned
    pushed,      \* concatenation of every chunk pushed so far
    returned,    \* concatenation of every value push returned so far
    flushed,     \* TRUE once flush has been called
    \* SessionOutput
    last_rendered,           \* SessionOutput.last_rendered
    quiet,                   \* SessionOutput.quiet
    show_full_tool_output,   \* SessionOutput.show_full_tool_output
    text_messages,           \* SessionOutput.text_messages
    sop,         \* the last SessionOutput operation
    calls,       \* the handle_spacing calls the last operation made
    out,         \* what the last operation wrote to the terminal
    sret,        \* the value the last SessionOutput operation returned
    stderr,      \* what the last operation wrote to the standard error
    \* shorten_path
    path,        \* the path argument
    home,        \* the HOME environment variable, an Option
    debug,       \* the debug argument
    result,      \* what shorten_path returned, None before the call
    \* print_params
    params,      \* the value argument, an object that is a sequence of entries
    depth,       \* the depth argument
    pdebug,      \* the debug argument
    width,       \* the terminal width, None when it cannot be determined
    lines        \* the lines print_params printed, None before the call

bufVars == <<buffer, op, chunk, ret, pushed, returned, flushed>>

sessVars == <<last_rendered, quiet, show_full_tool_output, text_messages,
              sop, calls, out, sret, stderr>>

pathVars == <<path, home, debug, result>>

printVars == <<params, depth, pdebug, width, lines>>

vars == <<buffer, op, chunk, ret, pushed, returned, flushed,
          last_rendered, quiet, show_full_tool_output, text_messages,
          sop, calls, out, sret, stderr,
          path, home, debug, result,
          params, depth, pdebug, width, lines>>

----------------------------------------------------------------------------
(* Bounds *)

MaxChunkLen == 3
MaxPushed == 6
MaxContents == 2
MaxText == 2
MaxComponents == 4
MaxItems == 2

----------------------------------------------------------------------------
(* Text helpers *)

NL == "\n"

\* Option<T>
None == [some |-> FALSE, val |-> <<>>]
Some(v) == [some |-> TRUE, val |-> v]

\* s[from..] with a 0-based offset
SliceFrom(s, from) == SubSeq(s, from + 1, Len(s))

\* s[..to] with a 0-based exclusive end offset
SliceTo(s, to) == SubSeq(s, 1, to)

\* does pat occur in s at 0-based offset i
MatchesAt(s, pat, i) ==
    /\ i >= 0
    /\ i + Len(pat) <= Len(s)
    /\ SubSeq(s, i + 1, i + Len(pat)) = pat

\* str::find scanning from the left: the first match, -1 for None
RECURSIVE FindFrom(_, _, _)
FindFrom(s, pat, i) ==
    IF i + Len(pat) > Len(s) THEN -1
    ELSE IF MatchesAt(s, pat, i) THEN i
    ELSE FindFrom(s, pat, i + 1)

find(s, pat) == FindFrom(s, pat, 0)

\* str::rfind scanning from the right: the last match, -1 for None
RECURSIVE RfindFrom(_, _, _)
RfindFrom(s, pat, i) ==
    IF i < 0 THEN -1
    ELSE IF MatchesAt(s, pat, i) THEN i
    ELSE RfindFrom(s, pat, i - 1)

rfind_first(s, pat) == FindFrom(s, pat, 0)
rfind(s, pat) == RfindFrom(s, pat, Len(s) - Len(pat))

----------------------------------------------------------------------------
(* MarkdownBuffer *)

BufferAlphabet == {"a", NL}

Chunks == UNION {[1..n -> BufferAlphabet] : n \in 0..MaxChunkLen}

\* self.buffer.push_str(chunk)
push_str_dropping(buf, c) == c
push_str(buf, c) == buf \o c

\* let split_pos = last_empty_line + 2
split_pos_short(last_empty_line) == last_empty_line + 1
split_pos(last_empty_line) == last_empty_line + 2

\* MarkdownBuffer::push: the new buffer and the returned Option<String>
push(buf, c) ==
    LET b == push_str(buf, c)
        last_empty_line == rfind(b, <<NL, NL>>)
    IN  IF last_empty_line # -1
        THEN LET sp == split_pos(last_empty_line)
             IN  [buffer |-> SliceFrom(b, sp), ret |-> Some(SliceTo(b, sp))]
        ELSE [buffer |-> b, ret |-> None]

\* MarkdownBuffer::flush: std::mem::take(&mut self.buffer)
flush_keeping(buf) == [buffer |-> buf, ret |-> buf]
flush(buf) == [buffer |-> <<>>, ret |-> buf]

\* MarkdownBuffer::new; no session and no shorten_path call
BufferInit ==
    /\ buffer = <<>>
    /\ op = "new"
    /\ chunk = <<>>
    /\ ret = None
    /\ pushed = <<>>
    /\ returned = <<>>
    /\ flushed = FALSE
    /\ last_rendered = "Empty"
    /\ quiet = FALSE
    /\ show_full_tool_output = FALSE
    /\ text_messages = <<>>
    /\ sop = "new"
    /\ calls = <<>>
    /\ out = <<>>
    /\ sret = None
    /\ stderr = <<>>
    /\ path = <<>>
    /\ home = None
    /\ debug = FALSE
    /\ result = None
    /\ params = <<>>
    /\ depth = 1
    /\ pdebug = FALSE
    /\ width = None
    /\ lines = None

Push ==
    \E c \in Chunks :
        /\ Len(pushed) + Len(c) <= MaxPushed
        /\ LET r == push(buffer, c)
           IN  /\ buffer' = r.buffer
               /\ ret' = r.ret
               /\ returned' = returned \o r.ret.val
        /\ op' = "push"
        /\ chunk' = c
        /\ pushed' = pushed \o c
        /\ UNCHANGED flushed
        /\ UNCHANGED <<sessVars, pathVars, printVars>>

Flush ==
    /\ LET r == flush(buffer)
       IN  /\ buffer' = r.buffer
           /\ ret' = Some(r.ret)
    /\ op' = "flush"
    /\ chunk' = <<>>
    /\ flushed' = TRUE
    /\ UNCHANGED <<pushed, returned>>
    /\ UNCHANGED <<sessVars, pathVars, printVars>>


----------------------------------------------------------------------------
(* SessionOutput *)

\* enum ContentType
ContentType == {"Empty", "Text", "ToolCall", "ToolResponse", "System",
                "Prompt", "Header", "Error"}

\* The variants of MessageContent as render_message tells them apart.
\* "ToolResponseSilent" is a tool response none of whose content passes the
\* audience and priority filters; "Other" is any variant of the catch-all arm.
MessageContent == {"ActionRequired", "Text", "ToolRequest", "ToolResponse",
                   "ToolResponseSilent", "Image", "Thinking",
                   "RedactedThinking", "ThinkingMessage", "InlineMessage",
                   "Other"}

Messages == UNION {[1..n -> MessageContent] : n \in 0..MaxContents}

\* the text carried by a MessageContent::Text
TextPayload == <<"t">>

\* The match of handle_spacing: the number of blank lines printed before a
\* block of kind next when the last block was of kind prev.
blank_lines_empty_last(prev, next) ==
    IF prev = "Header" \/ next = "Header" THEN 1
    ELSE IF prev = "Empty" THEN 0
    ELSE IF prev = "ToolCall" /\ next = "ToolResponse" THEN 0
    ELSE 1

blank_lines_tight_first(prev, next) ==
    IF prev = "Empty" THEN 0
    ELSE IF prev = "ToolCall" THEN 0
    ELSE IF prev = "Header" \/ next = "Header" THEN 1
    ELSE 1

blank_lines_tight_reversed(prev, next) ==
    IF prev = "Empty" THEN 0
    ELSE IF prev = "Header" \/ next = "Header" THEN 1
    ELSE IF prev = "ToolResponse" /\ next = "ToolCall" THEN 0
    ELSE 1

blank_lines(prev, next) ==
    IF prev = "Empty" THEN 0
    ELSE IF prev = "Header" \/ next = "Header" THEN 1
    ELSE IF prev = "ToolCall" /\ next = "ToolResponse" THEN 0
    ELSE 1

\* The part of the session one operation works on: last_rendered,
\* text_messages, and the calls and output of the operation so far.
Running == [lr |-> last_rendered, tm |-> text_messages,
            calls |-> <<>>, out |-> <<>>]

\* n blank lines
Blanks(n) == [i \in 1..n |-> "blank"]

\* SessionOutput::handle_spacing
handle_spacing_lazy(st, next) ==
    LET n == blank_lines(st.lr, next)
    IN  [st EXCEPT !.lr = IF n > 0 THEN next ELSE @,
                   !.calls = Append(@, [prev |-> st.lr, next |-> next, sep |-> n]),
                   !.out = @ \o Blanks(n)]

handle_spacing(st, next) ==
    LET n == blank_lines(st.lr, next)
    IN  [st EXCEPT !.lr = next,
                   !.calls = Append(@, [prev |-> st.lr, next |-> next, sep |-> n]),
                   !.out = @ \o Blanks(n)]

\* println!/print! of a block's content
println(st, what) == [st EXCEPT !.out = Append(@, what)]

\* SessionOutput::buffer_text_message
buffer_text_message(st, message) == [st EXCEPT !.tm = @ \o message]

\* one iteration of the loop of render_message; thinking_shown is
\* GOOSE_CLI_SHOW_THINKING being set with stdout a terminal
render_content(st, content, thinking_shown) ==
    CASE content = "ActionRequired" -> st
      [] content = "Text" -> buffer_text_message(st, TextPayload)
      [] content = "ToolRequest" ->
            println(handle_spacing(st, "ToolCall"), "tool_request")
      [] content = "ToolResponse" ->
            println(handle_spacing(st, "ToolResponse"), "tool_response")
      [] content = "ToolResponseSilent" -> handle_spacing(st, "ToolResponse")
      [] content = "Image" -> println(handle_spacing(st, "Text"), "image")
      [] content = "Thinking" ->
            IF thinking_shown
            THEN println(handle_spacing(st, "System"), "thinking")
            ELSE st
      [] content = "RedactedThinking" ->
            println(handle_spacing(st, "System"), "thinking")
      [] content = "ThinkingMessage" -> st
      [] content = "InlineMessage" ->
            println(handle_spacing(st, "System"), "notification")
      [] OTHER -> println(handle_spacing(st, "Error"), "warning")

RECURSIVE render_contents(_, _, _)
render_contents(st, message, thinking_shown) ==
    IF message = <<>> THEN st
    ELSE render_contents(render_content(st, Head(message), thinking_shown),
                         Tail(message), thinking_shown)

\* the number of Text contents of a message
RECURSIVE TextCount(_)
TextCount(message) ==
    IF message = <<>> THEN 0
    ELSE (IF Head(message) = "Text" THEN 1 ELSE 0) + TextCount(Tail(message))

\* the session after an operation left it as st
Commit(st) ==
    /\ last_rendered' = st.lr
    /\ text_messages' = st.tm
    /\ calls' = st.calls
    /\ out' = st.out
    /\ sret' = None
    /\ stderr' = <<>>
    /\ UNCHANGED <<quiet, show_full_tool_output>>
    /\ UNCHANGED <<bufVars, pathVars, printVars>>

\* the body of an operation that returns at once when quiet is set, and
\* otherwise calls handle_spacing(kind) and prints its block
QuietBlock_ungated(kind, what) == println(handle_spacing(Running, kind), what)

QuietBlock(kind, what) ==
    IF quiet THEN Running
    ELSE println(handle_spacing(Running, kind), what)

\* the body of an operation that calls handle_spacing(kind) and prints its
\* block whatever quiet is
LoudBlock(kind, what) == println(handle_spacing(Running, kind), what)

\* SessionOutput::new, then with_quiet; no buffer and no shorten_path call
SessionInit ==
    /\ last_rendered = "Empty"
    /\ quiet \in BOOLEAN
    /\ show_full_tool_output \in BOOLEAN
    /\ text_messages = <<>>
    /\ sop = "new"
    /\ calls = <<>>
    /\ out = <<>>
    /\ sret = None
    /\ stderr = <<>>
    /\ buffer = <<>>
    /\ op = "new"
    /\ chunk = <<>>
    /\ ret = None
    /\ pushed = <<>>
    /\ returned = <<>>
    /\ flushed = FALSE
    /\ path = <<>>
    /\ home = None
    /\ debug = FALSE
    /\ result = None
    /\ params = <<>>
    /\ depth = 1
    /\ pdebug = FALSE
    /\ width = None
    /\ lines = None

\* SessionOutput::with_quiet: self.quiet = quiet, nothing printed
WithQuiet ==
    \E q \in BOOLEAN :
        /\ sop' = "with_quiet"
        /\ quiet' = q
        /\ calls' = <<>>
        /\ out' = <<>>
        /\ sret' = None
        /\ stderr' = <<>>
        /\ UNCHANGED <<last_rendered, text_messages, show_full_tool_output>>
        /\ UNCHANGED <<bufVars, pathVars, printVars>>

RenderMessage ==
    \E message \in Messages, thinking_shown \in BOOLEAN :
        /\ Len(text_messages) + TextCount(message) <= MaxText
        /\ sop' = "render_message"
        /\ Commit(IF quiet THEN Running
                  ELSE render_contents(Running, message, thinking_shown))

Finish ==
    /\ sop' = "finish"
    /\ Commit(IF quiet THEN Running
              ELSE [println(handle_spacing(Running, "Text"), "markdown")
                       EXCEPT !.tm = <<>>])

RenderText ==
    /\ sop' = "render_text"
    /\ Commit(QuietBlock("Text", "render_text"))

RenderTextRaw ==
    /\ sop' = "render_text_raw"
    /\ Commit(IF quiet THEN Running ELSE println(Running, "render_text_raw"))

RenderError ==
    /\ sop' = "render_error"
    /\ Commit(LoudBlock("Error", "render_error"))

RenderHeader ==
    /\ sop' = "render_header"
    /\ Commit(QuietBlock("Header", "render_header"))

RenderEnterPlanMode ==
    /\ sop' = "render_enter_plan_mode"
    /\ Commit(QuietBlock("System", "render_enter_plan_mode"))

RenderActOnPlan ==
    /\ sop' = "render_act_on_plan"
    /\ Commit(QuietBlock("System", "render_act_on_plan"))

RenderExitPlanMode ==
    /\ sop' = "render_exit_plan_mode"
    /\ Commit(QuietBlock("System", "render_exit_plan_mode"))

GooseModeMessage ==
    /\ sop' = "goose_mode_message"
    /\ Commit(QuietBlock("System", "goose_mode_message"))

RenderPrompts ==
    /\ sop' = "render_prompts"
    /\ Commit(QuietBlock("Prompt", "render_prompts"))

RenderPromptInfo ==
    /\ sop' = "render_prompt_info"
    /\ Commit(QuietBlock("Prompt", "render_prompt_info"))

RenderExtensionSuccess ==
    /\ sop' = "render_extension_success"
    /\ Commit(QuietBlock("System", "render_extension_success"))

RenderExtensionError ==
    /\ sop' = "render_extension_error"
    /\ Commit(LoudBlock("Error", "render_extension_error"))

RenderBuiltinSuccess ==
    /\ sop' = "render_builtin_success"
    /\ Commit(QuietBlock("System", "render_builtin_success"))

RenderBuiltinError ==
    /\ sop' = "render_builtin_error"
    /\ Commit(LoudBlock("Error", "render_builtin_error"))

\* both the tool-graph form and the plain form call handle_spacing(ToolCall)
\* once and print a header line
RenderSubagentToolCall ==
    /\ sop' = "render_subagent_tool_call"
    /\ Commit(QuietBlock("ToolCall", "render_subagent_tool_call"))

DisplaySessionInfo ==
    /\ sop' = "display_session_info"
    /\ Commit(QuietBlock("System", "display_session_info"))

\* set_terminal_title writes the title sequence when stdout is a terminal
DisplayGreeting ==
    \E is_terminal \in BOOLEAN :
        /\ sop' = "display_greeting"
        /\ Commit(IF quiet THEN Running
                  ELSE println(handle_spacing(
                                   IF is_terminal THEN println(Running, "title")
                                   ELSE Running,
                                   "System"),
                               "display_greeting"))

DisplayContextUsage ==
    /\ sop' = "display_context_usage"
    /\ Commit(IF quiet THEN Running
              ELSE println(Running, "display_context_usage"))

\* SessionOutput::toggle_full_tool_output: the new flag, the returned value
\* and the report on the standard error; save_ok is whether
\* Config::global().set_param succeeded
toggle_unless_save_fails(flag, save_ok) ==
    LET new == IF save_ok THEN ~flag ELSE flag
    IN  [flag |-> new, ret |-> new,
         err |-> IF save_ok THEN <<>> ELSE <<"failed_to_save">>]

toggle_full_tool_output(flag, save_ok) ==
    [flag |-> ~flag, ret |-> ~flag,
     err |-> IF save_ok THEN <<>> ELSE <<"failed_to_save">>]

ToggleFullToolOutput ==
    \E save_ok \in BOOLEAN :
        LET r == toggle_full_tool_output(show_full_tool_output, save_ok)
        IN  /\ show_full_tool_output' = r.flag
            /\ sret' = Some(r.ret)
            /\ stderr' = r.err
            /\ sop' = "toggle_full_tool_output"
            /\ calls' = <<>>
            /\ out' = <<>>
            /\ UNCHANGED <<last_rendered, quiet, text_messages>>
            /\ UNCHANGED <<bufVars, pathVars, printVars>>

\* SessionOutput::get_show_full_tool_output
GetShowFullToolOutput ==
    /\ sop' = "get_show_full_tool_output"
    /\ sret' = Some(show_full_tool_output)
    /\ stderr' = <<>>
    /\ calls' = <<>>
    /\ out' = <<>>
    /\ UNCHANGED <<last_rendered, quiet, show_full_tool_output, text_messages>>
    /\ UNCHANGED <<bufVars, pathVars, printVars>>

----------------------------------------------------------------------------
(* shorten_path *)

\* the number of bytes of the UTF-8 encoding of a character
len_utf8(c) == IF c = "U2" THEN 2 ELSE 1

\* str::len: the length of a string in bytes
RECURSIVE len(_)
len(s) == IF s = <<>> THEN 0 ELSE len_utf8(Head(s)) + len(Tail(s))

\* the pieces of s between the occurrences of the separator sep
RECURSIVE Split(_, _)
Split(s, sep) ==
    LET i == find(s, <<sep>>)
    IN  IF i = -1 THEN <<s>>
        ELSE <<SliceTo(s, i)>> \o Split(SliceFrom(s, i + 1), sep)

\* the pieces joined by "/"
RECURSIVE Join(_)
Join(pieces) ==
    IF pieces = <<>> THEN <<>>
    ELSE IF Len(pieces) = 1 THEN pieces[1]
    ELSE pieces[1] \o <<"/">> \o Join(Tail(pieces))

\* Path::has_root on Unix
has_root(p) == p # <<>> /\ p[1] = "/"

\* Components::include_cur_dir: a relative path that starts with "." or "./"
include_cur_dir(p) ==
    /\ ~has_root(p)
    /\ p # <<>>
    /\ p[1] = "."
    /\ (Len(p) = 1 \/ p[2] = "/")

\* Components::parse_single_component gives None for "" and for "."
IsComponent(piece) == piece # <<>> /\ piece # <<".">>

\* the pieces of the path after its root or leading "."
Body(p) ==
    IF has_root(p) \/ include_cur_dir(p) THEN Tail(Split(p, "/"))
    ELSE Split(p, "/")

\* the pieces of a body that are components
RECURSIVE Normal(_)
Normal(pieces) ==
    IF pieces = <<>> THEN <<>>
    ELSE (IF IsComponent(Head(pieces)) THEN <<Head(pieces)>> ELSE <<>>)
         \o Normal(Tail(pieces))

\* Path::components, each component as its as_os_str text
components(p) ==
    (IF has_root(p) THEN << <<"/">> >>
     ELSE IF include_cur_dir(p) THEN << <<".">> >>
     ELSE <<>>)
    \o Normal(Body(p))

\* the pieces left after the first n components of a body were consumed
RECURSIVE DropComponents(_, _)
DropComponents(pieces, n) ==
    IF n = 0 \/ pieces = <<>> THEN pieces
    ELSE DropComponents(Tail(pieces),
                        IF IsComponent(Head(pieces)) THEN n - 1 ELSE n)

\* Components::trim_left
RECURSIVE trim_left(_)
trim_left(pieces) ==
    IF pieces = <<>> \/ IsComponent(Head(pieces)) THEN pieces
    ELSE trim_left(Tail(pieces))

\* Components::trim_right, never below the first keep pieces
RECURSIVE trim_right(_, _)
trim_right(pieces, keep) ==
    IF Len(pieces) <= keep \/ IsComponent(pieces[Len(pieces)]) THEN pieces
    ELSE trim_right(SubSeq(pieces, 1, Len(pieces) - 1), keep)

IsPrefix(a, b) == Len(a) <= Len(b) /\ SubSeq(b, 1, Len(a)) = a

\* Path::strip_prefix: compares whole components; the remainder is
\* Components::as_path of what iter_after leaves
strip_prefix_by_text(p, base) ==
    IF IsPrefix(base, p)
    THEN Some(Join(trim_right(trim_left(Split(SliceFrom(p, Len(base)), "/")), 0)))
    ELSE None

strip_prefix(p, base) ==
    LET cb == components(base)
        lead == IF has_root(p) \/ include_cur_dir(p) THEN 1 ELSE 0
    IN  IF ~IsPrefix(cb, components(p)) THEN None
        ELSE IF cb = <<>>
        THEN Some(Join(trim_right(Split(p, "/"), IF has_root(p) THEN 2 ELSE lead)))
        ELSE Some(Join(trim_right(
                 trim_left(DropComponents(Body(p), Len(cb) - lead)), 0)))

\* "Try to replace home directory with ~"
display_path(p, h) ==
    IF h.some /\ strip_prefix(p, h.val).some
    THEN <<"~", "/">> \o strip_prefix(p, h.val).val
    ELSE p

\* the loop that builds shortened, from index i (0-based) on
RECURSIVE shortened_last_only(_, _, _)
shortened_last_only(comps, rooted, i) ==
    IF i >= Len(comps) THEN <<>>
    ELSE LET comp == comps[i + 1]
             piece == IF i = 0 /\ rooted THEN <<>>
                      ELSE IF i = Len(comps) - 1 THEN comp
                      ELSE IF comp # <<>> THEN <<comp[1]>>
                      ELSE <<>>
         IN  piece \o (IF i < Len(comps) - 1 THEN <<"/">> ELSE <<>>)
                   \o shortened_last_only(comps, rooted, i + 1)

RECURSIVE shortened(_, _, _)
shortened(comps, rooted, i) ==
    IF i >= Len(comps) THEN <<>>
    ELSE LET comp == comps[i + 1]
             piece == IF i = 0 /\ rooted THEN <<>>
                      ELSE IF i = Len(comps) - 1 \/ i = Len(comps) - 2 THEN comp
                      ELSE IF comp # <<>> THEN <<comp[1]>>
                      ELSE <<>>
         IN  piece \o (IF i < Len(comps) - 1 THEN <<"/">> ELSE <<>>)
                   \o shortened(comps, rooted, i + 1)

\* shorten_path with debug unset
shorten_from_three(p, h) ==
    LET dp == display_path(p, h)
        comps == components(dp)
    IN  IF len(dp) > 40 /\ Len(comps) > 2
        THEN shortened(comps, has_root(dp), 0)
        ELSE dp

shorten(p, h) ==
    LET dp == display_path(p, h)
        comps == components(dp)
    IN  IF len(dp) > 40 /\ Len(comps) > 3
        THEN shortened(comps, has_root(dp), 0)
        ELSE dp

\* shorten_path; h is the value of HOME
shorten_path_always(p, h, dbg) == shorten(p, h)
shorten_path(p, h, dbg) == IF dbg THEN p ELSE shorten(p, h)

\* n times the character c
Rep(c, n) == [i \in 1..n |-> c]

\* the component names the paths are built from: two short names, ".",
\* a name of 30 ASCII characters and a name of 18 two-byte characters
Names == {<<"a">>, <<"a", "b">>, <<".">>, Rep("v", 30), Rep("U2", 18)}

\* the paths: 1..MaxComponents names joined by "/", with or without a
\* leading and a trailing "/"
Paths ==
    {(IF rooted THEN <<"/">> ELSE <<>>) \o Join(names)
        \o (IF trailing THEN <<"/">> ELSE <<>>) :
     rooted \in BOOLEAN, trailing \in BOOLEAN,
     names \in UNION {[1..n -> Names] : n \in 1..MaxComponents}}

\* the paths and the home directory of the tests of shorten_path
TestLongPath ==
    <<"/", "v", "v", "v", "v", "v", "v", "v", "v", "v", "v", "v", "v",
      "v", "v", "v", "v", "v", "v", "v", "v", "v", "v", "v", "v", "v",
      "v", "v", "v", "v", "v", "v", "v", "v", "v", "v", "v", "v", "v",
      "v", "v", "/", "l", "o", "n", "g", "/", "p", "a", "t", "h", "/",
      "w", "i", "t", "h", "/", "m", "a", "n", "y", "/", "c", "o", "m",
      "p", "o", "n", "e", "n", "t", "s", "/", "f", "i", "l", "e", ".",
      "t", "x", "t">>

TestLongPathShortened ==
    <<"/", "v", "/", "l", "/", "p", "/", "w", "/", "m", "/", "c", "o",
      "m", "p", "o", "n", "e", "n", "t", "s", "/", "f", "i", "l", "e",
      ".", "t", "x", "t">>

TestHome ==
    <<"/", "U", "s", "e", "r", "s", "/", "t", "e", "s", "t", "u", "s",
      "e", "r">>

TestHomePath ==
    <<"/", "U", "s", "e", "r", "s", "/", "t", "e", "s", "t", "u", "s",
      "e", "r", "/", "d", "o", "c", "u", "m", "e", "n", "t", "s", "/",
      "f", "i", "l", "e", ".", "t", "x", "t">>

TestHomePathShortened ==
    <<"~", "/", "d", "o", "c", "u", "m", "e", "n", "t", "s", "/", "f",
      "i", "l", "e", ".", "t", "x", "t">>

TestSiblingPath ==
    <<"/", "U", "s", "e", "r", "s", "/", "t", "e", "s", "t", "u", "s",
      "e", "r", "2", "/", "d", "o", "c", "u", "m", "e", "n", "t", "s",
      "/", "f", "i", "l", "e", ".", "t", "x", "t">>

TestPaths == {TestLongPath, TestHomePath, TestSiblingPath}

\* the values of HOME: unset, or a directory
Homes == {None, Some(<<"/", "a">>), Some(<<"/", "a", "/", "a", "b", "/">>),
          Some(TestHome)}

PathInit ==
    /\ path \in Paths \cup TestPaths
    /\ home \in Homes
    /\ debug \in BOOLEAN
    /\ result = None
    /\ buffer = <<>>
    /\ op = "new"
    /\ chunk = <<>>
    /\ ret = None
    /\ pushed = <<>>
    /\ returned = <<>>
    /\ flushed = FALSE
    /\ last_rendered = "Empty"
    /\ quiet = FALSE
    /\ show_full_tool_output = FALSE
    /\ text_messages = <<>>
    /\ sop = "new"
    /\ calls = <<>>
    /\ out = <<>>
    /\ sret = None
    /\ stderr = <<>>
    /\ params = <<>>
    /\ depth = 1
    /\ pdebug = FALSE
    /\ width = None
    /\ lines = None

ShortenPath ==
    /\ ~result.some
    /\ result' = Some(shorten_path(path, home, debug))
    /\ UNCHANGED <<path, home, debug>>
    /\ UNCHANGED <<bufVars, sessVars, printVars>>

----------------------------------------------------------------------------
(* print_params, print_value *)

\* serde_json::Value: a record with the variant t and its payload: the text
\* s of a String, the decimal text n of a Number, the boolean b of a Bool,
\* the items of an Array, the <<key, value>> entries of an Object in stored
\* order.
String(text) == [t |-> "String", s |-> text]
Number(text) == [t |-> "Number", n |-> text]
Bool(b) == [t |-> "Bool", b |-> b]
Null == [t |-> "Null"]
Array(items) == [t |-> "Array", items |-> items]
Object(entries) == [t |-> "Object", entries |-> entries]

\* pub const INDENT: &str = "  "
INDENT == <<" ", " ">>

\* str::repeat
RECURSIVE repeat(_, _)
repeat(str, n) == IF n = 0 THEN <<>> ELSE str \o repeat(str, n - 1)

\* bool::to_string
bool_to_string(b) ==
    IF b THEN <<"t", "r", "u", "e">> ELSE <<"f", "a", "l", "s", "e">>

\* the text "null"
NullText == <<"n", "u", "l", "l">>

\* [String]::join
RECURSIVE join(_, _)
join(texts, sep) ==
    IF texts = <<>> THEN <<>>
    ELSE IF Len(texts) = 1 THEN texts[1]
    ELSE texts[1] \o sep \o join(Tail(texts), sep)

\* usize::saturating_sub
saturating_sub(a, b) == IF a > b THEN a - b ELSE 0

\* console::measure_text_width: every character of the model is one column
measure_text_width(text) == Len(text)

\* goose::utils::safe_truncate: the text unchanged when it has at most
\* max_width characters, else its first max_width characters
safe_truncate(text, max_width) ==
    IF Len(text) <= max_width THEN text ELSE SubSeq(text, 1, max_width)

\* what unreachable!() leaves in place of a text
Unreachable == <<"unreachable!">>

\* fmt::Display of a Value: compact JSON
RECURSIVE to_json(_)
RECURSIVE to_json_entries(_)
to_json_entries(entries) ==
    IF entries = <<>> THEN <<>>
    ELSE <<"\"">> \o entries[1][1] \o <<"\"", ":">> \o to_json(entries[1][2])
         \o (IF Len(entries) > 1 THEN <<",">> ELSE <<>>)
         \o to_json_entries(Tail(entries))

to_json(value) ==
    CASE value.t = "String" -> <<"\"">> \o value.s \o <<"\"">>
      [] value.t = "Number" -> value.n
      [] value.t = "Bool" -> bool_to_string(value.b)
      [] value.t = "Null" -> NullText
      [] value.t = "Array" ->
            <<"[">> \o join([i \in DOMAIN value.items |-> to_json(value.items[i])],
                            <<",">>)
                    \o <<"]">>
      [] OTHER -> <<"{">> \o to_json_entries(value.entries) \o <<"}">>

\* SessionOutput::print_value: the text printed; w is the terminal width
\* (an Option), full is self.show_full_tool_output
print_value_both(value, dbg, reserve_width, w, full) ==
    CASE value.t = "String" ->
            IF w.some /\ ~(dbg /\ full)
                      /\ len(value.s) > saturating_sub(w.val, reserve_width)
            THEN safe_truncate(value.s, saturating_sub(w.val, reserve_width))
            ELSE value.s
      [] value.t = "Number" -> value.n
      [] value.t = "Bool" -> bool_to_string(value.b)
      [] value.t = "Null" -> NullText
      [] OTHER -> Unreachable

print_value_unreserved(value, dbg, reserve_width, w, full) ==
    CASE value.t = "String" ->
            IF w.some /\ ~(dbg \/ full) /\ len(value.s) > w.val
            THEN safe_truncate(value.s, w.val)
            ELSE value.s
      [] value.t = "Number" -> value.n
      [] value.t = "Bool" -> bool_to_string(value.b)
      [] value.t = "Null" -> NullText
      [] OTHER -> Unreachable

print_value(value, dbg, reserve_width, w, full) ==
    CASE value.t = "String" ->
            IF w.some /\ ~(dbg \/ full)
                      /\ len(value.s) > saturating_sub(w.val, reserve_width)
            THEN safe_truncate(value.s, saturating_sub(w.val, reserve_width))
            ELSE value.s
      [] value.t = "Number" -> value.n
      [] value.t = "Bool" -> bool_to_string(value.b)
      [] value.t = "Null" -> NullText
      [] OTHER -> Unreachable

\* A printed line: the println! that wrote it (form), its indentation, its
\* key, the text after the key, and the value handed to print_value.
\* "object" and "array" are the `key:` lines, "value" is `key: text`,
\* "bullet" is a `- ` line of a multi-line array.
Line(form, indent, key, text, arg) ==
    [form |-> form, indent |-> indent, key |-> key, text |-> text, arg |-> arg]

NoArg == [t |-> "None"]

\* SessionOutput::print_value_with_prefix, for the prefix `{indent}{key}: `
print_value_with_prefix(indent, key, value, dbg, w, full) ==
    LET prefix == indent \o key \o <<":", " ">>
        prefix_width == measure_text_width(prefix)
    IN  Line("value", indent, key,
             print_value(value, dbg, prefix_width, w, full), value)

\* "Check if all items are simple values (not objects or arrays)"
is_simple(item) == item.t \in {"String", "Number", "Bool", "Null"}

all_simple_any(arr) == \E i \in DOMAIN arr : is_simple(arr[i])
all_simple(arr) == \A i \in DOMAIN arr : is_simple(arr[i])

\* the closure that turns the items of a simple array into texts
item_text(item) ==
    CASE item.t = "String" -> item.s
      [] item.t = "Number" -> item.n
      [] item.t = "Bool" -> bool_to_string(item.b)
      [] item.t = "Null" -> NullText
      [] OTHER -> Unreachable

\* the depth of the entries of an object value, and of an object item of a
\* multi-line array
child_depth_same(d) == d
child_depth(d) == d + 1

item_depth_same(d) == d + 1
item_depth(d) == d + 2

\* SessionOutput::print_params: the lines printed for value, an
\* Option<JsonObject>
RECURSIVE print_params(_, _, _, _, _)
RECURSIVE print_entries(_, _, _, _, _)
RECURSIVE print_items(_, _, _, _, _)

\* the loop over the items of a multi-line array
print_items(arr, d, dbg, w, full) ==
    IF arr = <<>> THEN <<>>
    ELSE LET item == Head(arr)
             indent == repeat(INDENT, d)
         IN  (IF item.t = "Object"
              THEN <<Line("bullet", indent \o INDENT, <<>>, <<>>, NoArg)>>
                   \o print_params(Some(item.entries), item_depth(d), dbg, w, full)
              ELSE <<Line("bullet", indent \o INDENT, <<>>, to_json(item), NoArg)>>)
             \o print_items(Tail(arr), d, dbg, w, full)

\* the loop over the entries of the object
print_entries(entries, d, dbg, w, full) ==
    IF entries = <<>> THEN <<>>
    ELSE LET key == Head(entries)[1]
             val == Head(entries)[2]
             indent == repeat(INDENT, d)
         IN  (CASE val.t = "Object" ->
                     <<Line("object", indent, key, <<>>, NoArg)>>
                     \o print_params(Some(val.entries), child_depth(d), dbg, w, full)
                [] val.t = "Array" ->
                     IF all_simple(val.items)
                     THEN <<print_value_with_prefix(
                              indent, key,
                              String(join([i \in DOMAIN val.items |-> item_text(val.items[i])],
                                          <<",", " ">>)),
                              dbg, w, full)>>
                     ELSE <<Line("array", indent, key, <<>>, NoArg)>>
                          \o print_items(val.items, d, dbg, w, full)
                [] OTHER ->
                     <<print_value_with_prefix(indent, key, val, dbg, w, full)>>)
             \o print_entries(Tail(entries), d, dbg, w, full)

print_params(value, d, dbg, w, full) ==
    IF value.some THEN print_entries(value.val, d, dbg, w, full) ELSE <<>>

\* the values the printed objects are built from
Scalars == {String(<<"a", "b">>),
            String(<<"a", "b", "c", "d", "e", "f">>),
            String(<<"U2", "U2", "U2">>),
            Number(<<"4", "2">>),
            Number(<<"1", "2", "3", "4", "5", "6", "7">>),
            Bool(TRUE),
            Null}

K1 == <<"k">>
K2 == <<"p", "q">>

Objects == {Object(<<>>),
            Object(<< <<K1, String(<<"a", "b">>)>> >>),
            Object(<< <<K2, Number(<<"4", "2">>)>>,
                      <<K1, Object(<< <<K1, Bool(FALSE)>> >>)>> >>)}

\* the items of the arrays: scalars, an object and a nested array
Items == {String(<<"a", "b", "c", "d", "e", "f">>),
          Number(<<"4", "2">>),
          Bool(TRUE),
          Null,
          Object(<< <<K1, String(<<"a", "b", "c", "d", "e", "f">>)>> >>),
          Array(<<Number(<<"4", "2">>)>>)}

Arrays == {Array(items) : items \in UNION {[1..n -> Items] : n \in 0..MaxItems}}

Values == Scalars \cup Objects \cup Arrays

\* the values of a second entry
Siblings == {String(<<"a", "b", "c", "d", "e", "f">>),
             Object(<< <<K2, Null>> >>),
             Array(<<String(<<"a", "b", "c", "d", "e", "f">>), Null>>),
             Array(<<Object(<< <<K2, Null>> >>), Bool(FALSE)>>)}

\* the value argument: None, or an object of up to two entries
Params ==
    {None, Some(<<>>)}
    \cup {Some(<< <<K1, v>> >>) : v \in Values}
    \cup {Some(<< <<K1, v>>, <<K2, u>> >>) : v \in Values, u \in Siblings}
    \cup {Some(<< <<K2, u>>, <<K1, v>> >>) : v \in Scalars, u \in Siblings}

\* the terminal width: unknown, or a number of columns
Widths == {None, Some(4), Some(8), Some(12)}

\* print_params is first called at depth 1 or 2
PrintInit ==
    /\ params \in Params
    /\ depth \in {1, 2}
    /\ pdebug \in BOOLEAN
    /\ width \in Widths
    /\ lines = None
    /\ show_full_tool_output \in BOOLEAN
    /\ last_rendered = "Empty"
    /\ quiet = FALSE
    /\ text_messages = <<>>
    /\ sop = "new"
    /\ calls = <<>>
    /\ out = <<>>
    /\ sret = None
    /\ stderr = <<>>
    /\ buffer = <<>>
    /\ op = "new"
    /\ chunk = <<>>
    /\ ret = None
    /\ pushed = <<>>
    /\ returned = <<>>
    /\ flushed = FALSE
    /\ path = <<>>
    /\ home = None
    /\ debug = FALSE
    /\ result = None

PrintParams ==
    /\ ~lines.some
    /\ lines' = Some(print_params(params, depth, pdebug, width,
                                  show_full_tool_output))
    /\ UNCHANGED <<params, depth, pdebug, width>>
    /\ UNCHANGED <<bufVars, sessVars, pathVars>>

----------------------------------------------------------------------------
(* Specifications *)

BufferNext == Push \/ Flush

BufferSpec == BufferInit /\ [][BufferNext]_vars

SessionNext ==
    \/ WithQuiet
    \/ RenderMessage
    \/ Finish
    \/ RenderText
    \/ RenderTextRaw
    \/ RenderError
    \/ RenderHeader
    \/ RenderEnterPlanMode
    \/ RenderActOnPlan
    \/ RenderExitPlanMode
    \/ GooseModeMessage
    \/ RenderPrompts
    \/ RenderPromptInfo
    \/ RenderExtensionSuccess
    \/ RenderExtensionError
    \/ RenderBuiltinSuccess
    \/ RenderBuiltinError
    \/ RenderSubagentToolCall
    \/ DisplaySessionInfo
    \/ DisplayGreeting
    \/ DisplayContextUsage
    \/ ToggleFullToolOutput
    \/ GetShowFullToolOutput

SessionSpec == SessionInit /\ [][SessionNext]_vars

PathNext == ShortenPath

PathSpec == PathInit /\ [][PathNext]_vars

PrintNext == PrintParams

PrintSpec == PrintInit /\ [][PrintNext]_vars

----------------------------------------------------------------------------
(* MarkdownBuffer: properties *)

\* a double newline starts at position i (1-based) of s
DoubleNewlineAt(s, i) == i >= 1 /\ i < Len(s) /\ s[i] = NL /\ s[i + 1] = NL

HasDoubleNewline(s) == \E i \in 1..Len(s) : DoubleNewlineAt(s, i)

\* the length of the prefix of s through its last double newline
LastBoundary(s) ==
    CHOOSE e \in 2..Len(s) :
        /\ DoubleNewlineAt(s, e - 1)
        /\ \A i \in 1..Len(s) : DoubleNewlineAt(s, i) => i + 1 <= e

\* C1: push appends the fragment; when the resulting buffer contains a
\* double newline, push returns its prefix through the LAST double newline
\* and retains exactly the rest; otherwise it returns nothing and retains
\* the whole buffer.
C1_PushSplitsAtLastBoundary ==
    [][op' = "push" =>
         LET full == buffer \o chunk'
         IN  IF HasDoubleNewline(full)
             THEN /\ ret' = Some(SubSeq(full, 1, LastBoundary(full)))
                  /\ buffer' = SubSeq(full, LastBoundary(full) + 1, Len(full))
             ELSE /\ ret' = None
                  /\ buffer' = full]_vars

\* a push onto a non-empty buffer that completed a boundary, returned a
\* prefix holding two boundaries and retained a remainder
C1_Witness ==
    /\ op = "push"
    /\ ret.some
    /\ buffer # <<>>
    /\ Len(chunk) < Len(ret.val)
    /\ \E i \in 1..Len(ret.val) :
           DoubleNewlineAt(ret.val, i) /\ i + 1 < Len(ret.val)

\* C2: with no flush so far, the values returned by push followed by the
\* buffer content are together exactly the fragments pushed, in order.
C2_NothingLostOrDuplicated ==
    ~flushed => returned \o buffer = pushed

C2_Witness ==
    /\ ~flushed
    /\ op = "push"
    /\ returned # <<>>
    /\ returned # ret.val
    /\ buffer # <<>>

\* C3: flush returns exactly the retained text and leaves the buffer empty;
\* a flush right after a flush returns the empty text.
C3_FlushTakesBuffer ==
    [][op' = "flush" =>
         /\ ret' = Some(buffer)
         /\ buffer' = <<>>
         /\ (~flushed => returned \o ret'.val = pushed)
         /\ (op = "flush" => ret'.val = <<>>)]_vars

C3_Witness ==
    /\ op = "flush"
    /\ ret.val # <<>>
    /\ returned # <<>>
    /\ buffer = <<>>

\* C4: every value push returns is non-empty and ends with a double newline.
C4_ReturnEndsOnBoundary ==
    (op = "push" /\ ret.some) =>
        /\ Len(ret.val) >= 2
        /\ ret.val[Len(ret.val)] = NL
        /\ ret.val[Len(ret.val) - 1] = NL

C4_Witness ==
    /\ op = "push"
    /\ ret.some
    /\ flushed
    /\ Len(ret.val) > 2
    /\ ret.val[1] = "a"

\* C5: in every reachable state, push of the empty fragment returns nothing
\* and leaves the buffer unchanged.
C5_EmptyPushIsNoOp ==
    [][(op' = "push" /\ chunk' = <<>>) =>
         (ret' = None /\ buffer' = buffer)]_vars

C5_Witness ==
    /\ op = "push"
    /\ chunk = <<>>
    /\ buffer # <<>>
    /\ returned # <<>>

----------------------------------------------------------------------------
(* SessionOutput spacing: properties *)

\* the number of blank lines in what an operation wrote
RECURSIVE BlankCount(_)
BlankCount(o) ==
    IF o = <<>> THEN 0
    ELSE (IF Head(o) = "blank" THEN 1 ELSE 0) + BlankCount(Tail(o))

\* the number of blank lines the handle_spacing calls of an operation asked for
RECURSIVE SepSum(_)
SepSum(cs) == IF cs = <<>> THEN 0 ELSE Head(cs).sep + SepSum(Tail(cs))

\* C6: when the last rendered kind is Empty, handle_spacing emits no blank
\* line whatever the next kind: the first handle_spacing call of a session
\* finds Empty and asks for no blank line, and an operation that renders
\* the first block of the session writes no blank line.
C6_NoSeparatorAtSessionStart ==
    [][/\ \A i \in DOMAIN calls' :
              calls'[i].prev = "Empty" => calls'[i].sep = 0
       /\ (last_rendered = "Empty" /\ calls' # <<>>) =>
              /\ calls'[1].prev = "Empty"
              /\ calls'[1].sep = 0
              /\ (Len(calls') = 1 => BlankCount(out') = 0)]_vars

C6_Witness ==
    /\ sop = "render_header"
    /\ calls = <<[prev |-> "Empty", next |-> "Header", sep |-> 0]>>
    /\ out = <<"render_header">>

\* C7 as stated: whenever the previous or the next kind is Header,
\* handle_spacing emits one blank line.
C7_HeaderAlwaysSeparated ==
    \A i \in DOMAIN calls :
        (calls[i].prev = "Header" \/ calls[i].next = "Header")
            => calls[i].sep = 1

\* C7, amended: handle_spacing emits one blank line whenever the previous
\* kind is Header, and whenever the next kind is Header and the previous
\* kind is not Empty.
C7_HeaderSeparatedAfterStart ==
    \A i \in DOMAIN calls :
        (\/ calls[i].prev = "Header"
         \/ (calls[i].next = "Header" /\ calls[i].prev # "Empty"))
            => (calls[i].sep = 1 /\ BlankCount(out) >= 1)

C7_Witness ==
    /\ sop = "render_header"
    /\ calls = <<[prev |-> "ToolCall", next |-> "Header", sep |-> 1]>>
    /\ out = <<"blank", "render_header">>

\* C8: for a previous kind other than Empty, handle_spacing emits no blank
\* line for (ToolCall, ToolResponse) and exactly one for every other pair.
C8_OnlyCallResponseIsTight ==
    /\ \A i \in DOMAIN calls :
           calls[i].prev # "Empty" =>
               calls[i].sep =
                   (IF calls[i].prev = "ToolCall" /\ calls[i].next = "ToolResponse"
                    THEN 0 ELSE 1)
    /\ BlankCount(out) = SepSum(calls)

C8_Witness ==
    /\ sop = "render_message"
    /\ calls = <<[prev |-> "ToolResponse", next |-> "ToolCall", sep |-> 1],
                 [prev |-> "ToolCall", next |-> "ToolResponse", sep |-> 0]>>
    /\ out = <<"blank", "tool_request", "tool_response">>

----------------------------------------------------------------------------
(* shorten_path: properties *)

\* C9: with debug set, shorten_path returns the path unchanged.
C9_DebugReturnsPath ==
    (result.some /\ debug) => result.val = path

\* a path under the home directory that is shortened when debug is unset
C9_Witness ==
    /\ result.some
    /\ debug
    /\ home.some
    /\ strip_prefix(path, home.val).some
    /\ Len(path) > 40
    /\ Len(components(path)) > 3
    /\ result.val = path

\* C10: with debug unset, a home-substituted string of at most 40
\* characters is returned unchanged.
C10_ShortDisplayPathUnchanged ==
    (result.some /\ ~debug /\ Len(display_path(path, home)) <= 40)
        => result.val = display_path(path, home)

\* C11: with debug unset, a home-substituted string longer than 40 with more
\* than 3 components is returned as its components joined by "/": the last
\* two verbatim, every earlier one other than a leading root cut to its
\* first character, in order, starting with "/" iff the string does.
C11_LongPathAbbreviated ==
    (result.some /\ ~debug) =>
        LET dp == display_path(path, home)
            comps == components(dp)
            n == Len(comps)
        IN  (Len(dp) > 40 /\ n > 3) =>
                /\ result.val =
                       Join([i \in 1..n |->
                               IF i = 1 /\ dp[1] = "/" THEN <<>>
                               ELSE IF i >= n - 1 THEN comps[i]
                               ELSE <<comps[i][1]>>])
                /\ (result.val[1] = "/") <=> (dp[1] = "/")

\* the 8-component path of test_long_path_shortening
C11_Witness ==
    /\ result.some
    /\ ~debug
    /\ path = TestLongPath
    /\ Len(components(path)) = 8
    /\ result.val = TestLongPathShortened

\* C12: with debug unset and HOME set, the home directory is replaced by
\* "~/" exactly when its components are a prefix of the components of the
\* path; a path that only starts with the same characters is left alone.
C12_HomeMatchesWholeComponents ==
    (result.some /\ ~debug /\ home.some) =>
        LET ch == components(home.val)
            cp == components(path)
        IN  IF IsPrefix(ch, cp)
            THEN /\ SubSeq(result.val, 1, 2) = <<"~", "/">>
                 /\ len(path) <= 40 =>
                        components(result.val) =
                            << <<"~">> >> \o SubSeq(cp, Len(ch) + 1, Len(cp))
            ELSE /\ result.val[1] # "~"
                 /\ len(path) <= 40 => result.val = path

\* the sibling directory of test_home_directory_conversion
C12_Witness ==
    /\ result.some
    /\ ~debug
    /\ home = Some(TestHome)
    /\ path = TestSiblingPath
    /\ IsPrefix(TestHome, path)
    /\ result.val = path

\* C20: with debug unset, a home-substituted string of at most 3 components
\* (a leading root counting as one) is returned unshortened, also when it is
\* longer than 40.
C20_FewComponentsUnshortened ==
    (result.some /\ ~debug) =>
        LET dp == display_path(path, home)
        IN  Len(components(dp)) <= 3 => result.val = dp

\* a path under the home directory, "~" and two long names, 64 characters
C20_Witness ==
    /\ result.some
    /\ ~debug
    /\ home.some
    /\ Len(result.val) > 40
    /\ result.val[1] = "~"
    /\ Len(components(result.val)) = 3
    /\ result.val # path

----------------------------------------------------------------------------
(* SessionOutput: properties *)

\* C13: toggle_full_tool_output negates the flag and returns the new value,
\* whether or not the setting could be saved; get_show_full_tool_output
\* returns the flag; a toggle right after a toggle returns the negation of
\* what the first returned; no other operation changes the flag.
C13_ToggleNegatesFlag ==
    [][/\ sop' = "toggle_full_tool_output" =>
              /\ show_full_tool_output' = ~show_full_tool_output
              /\ sret' = Some(show_full_tool_output')
              /\ (sop = "toggle_full_tool_output" => sret'.val = ~sret.val)
       /\ sop' = "get_show_full_tool_output" =>
              /\ sret' = Some(show_full_tool_output)
              /\ (sop = "toggle_full_tool_output" => sret' = sret)
       /\ show_full_tool_output' # show_full_tool_output =>
              sop' = "toggle_full_tool_output"]_vars

\* a toggle whose save failed, after rendering, and that set the flag
C13_Witness ==
    /\ sop = "toggle_full_tool_output"
    /\ stderr # <<>>
    /\ sret = Some(TRUE)
    /\ show_full_tool_output
    /\ last_rendered # "Empty"

\* the block contents among what an operation wrote: neither the blank
\* lines of handle_spacing nor the terminal title sequence
RECURSIVE Blocks(_)
Blocks(o) ==
    IF o = <<>> THEN <<>>
    ELSE (IF Head(o) \in {"blank", "title"} THEN <<>> ELSE <<Head(o)>>)
         \o Blocks(Tail(o))

\* C17: every operation that writes a block calls handle_spacing for it, so
\* that last_rendered names the kind of the block rendered most recently.
C17_SpacingBeforeEveryBlock ==
    [][Blocks(out') # <<>> =>
           /\ Len(calls') >= Len(Blocks(out'))
           /\ last_rendered' = calls'[Len(calls')].next]_vars

\* C18: every handle_spacing call sets last_rendered to next, separator or
\* not, and the separator is a function of the pair (previous kind, next).
C18_StateFollowsNext ==
    [][calls' # <<>> =>
           /\ calls'[1].prev = last_rendered
           /\ \A i \in 1..(Len(calls') - 1) : calls'[i + 1].prev = calls'[i].next
           /\ last_rendered' = calls'[Len(calls')].next
           /\ \A i \in DOMAIN calls' :
                  calls'[i].sep =
                      (IF \/ calls'[i].prev = "Empty"
                          \/ <<calls'[i].prev, calls'[i].next>>
                                 = <<"ToolCall", "ToolResponse">>
                       THEN 0 ELSE 1)]_vars

\* a message whose two blocks both went without a separator
C18_Witness ==
    /\ sop = "render_message"
    /\ calls = <<[prev |-> "Empty", next |-> "ToolCall", sep |-> 0],
                 [prev |-> "ToolCall", next |-> "ToolResponse", sep |-> 0]>>
    /\ last_rendered = "ToolResponse"
    /\ text_messages # <<>>

\* the `key: value` lines among the printed lines
ValueLines == {i \in DOMAIN lines.val : lines.val[i].form = "value"}

\* the width left for the value of a `key: value` line
Remaining(l) ==
    saturating_sub(width.val, Len(l.indent \o l.key \o <<":", " ">>))

\* the width is known and neither debug nor full output is active
Compact == width.some /\ ~pdebug /\ ~show_full_tool_output

IsPrefixOf(a, b) == Len(a) <= Len(b) /\ a = SubSeq(b, 1, Len(a))

\* C14: a string value is printed in full whenever the width is unknown, or
\* debug is set, or the full-output toggle is on; a string is printed
\* shortened only when the width is known and neither of the two is set.
C14_FullUnlessCompact ==
    lines.some =>
        \A i \in ValueLines :
            LET l == lines.val[i]
            IN  l.arg.t = "String" =>
                    /\ (~width.some \/ pdebug \/ show_full_tool_output)
                           => l.text = l.arg.s
                    /\ l.text # l.arg.s => Compact

\* a string longer than the remaining width, printed in full under debug
\* with a known width
C14_Witness ==
    /\ lines.some
    /\ width.some
    /\ pdebug
    /\ ~show_full_tool_output
    /\ \E i \in ValueLines :
           LET l == lines.val[i]
           IN  /\ l.arg.t = "String"
               /\ Len(l.arg.s) > Remaining(l)
               /\ l.text = l.arg.s

\* C19 as stated: in Compact mode no scalar printed as `key: value`, string,
\* number, bool or null, is longer than the width left after the prefix.
C19_ScalarsFitRemainingWidth ==
    (lines.some /\ Compact) =>
        \A i \in ValueLines : Len(lines.val[i].text) <= Remaining(lines.val[i])

\* C19: in Compact mode a string printed as `key: value` is cut to the width
\* left after the `key: ` prefix: its text is a prefix of the string, never
\* longer than that width, and the whole string when the string fits;
\* numbers, bools and null are printed in full whatever the width.
C19_StringsFitRemainingWidth ==
    (lines.some /\ Compact) =>
        \A i \in ValueLines :
            LET l == lines.val[i]
            IN  IF l.arg.t = "String"
                THEN /\ Len(l.text) <= Remaining(l)
                     /\ IsPrefixOf(l.text, l.arg.s)
                     /\ Len(l.arg.s) <= Remaining(l) => l.text = l.arg.s
                ELSE l.text = item_text(l.arg)

\* a string cut to the remaining width next to a number left longer than it
C19_Witness ==
    /\ lines.some
    /\ Compact
    /\ \E i \in ValueLines :
           LET l == lines.val[i]
           IN  /\ l.arg.t = "String"
               /\ l.text # l.arg.s
               /\ Len(l.text) = Remaining(l)
    /\ \E i \in ValueLines :
           LET l == lines.val[i]
           IN  /\ l.arg.t = "Number"
               /\ Len(l.text) > Remaining(l)

\* the kinds of value the claims call scalar
ScalarKinds == {"String", "Number", "Bool", "Null"}

OnlyScalars(items) == \A i \in DOMAIN items : items[i].t \in ScalarKinds

\* the number of lines the entries of an object take
RECURSIVE EntriesLines(_)
RECURSIVE ItemsLines(_)
ItemsLines(items) ==
    IF items = <<>> THEN 0
    ELSE 1 + (IF Head(items).t = "Object"
              THEN EntriesLines(Head(items).entries) ELSE 0)
           + ItemsLines(Tail(items))

EntriesLines(entries) ==
    IF entries = <<>> THEN 0
    ELSE LET val == Head(entries)[2]
         IN  (CASE val.t = "Object" -> 1 + EntriesLines(val.entries)
                [] val.t = "Array" ->
                     IF OnlyScalars(val.items) THEN 1
                     ELSE 1 + ItemsLines(val.items)
                [] OTHER -> 1)
             + EntriesLines(Tail(entries))

\* the line on which entry k of the printed object starts, and the line of
\* item j of a multi-line array whose header is on line start
EntryStart(k) == 1 + EntriesLines(SubSeq(params.val, 1, k - 1))
ItemStart(start, items, j) == start + 1 + ItemsLines(SubSeq(items, 1, j - 1))

\* the texts of the items of an array, joined with ", "
Joined(items) ==
    join([i \in DOMAIN items |-> item_text(items[i])], <<",", " ">>)

\* C15: an array is rendered inline, as one `key: v1, v2` line whose joined
\* text is truncated as one string, iff all its elements are scalars; else
\* as a `key:` line followed, in array order, by a bullet line per element,
\* an object element followed by its entries printed at depth + 2, any
\* other element printed whole on its bullet line in every mode.
C15_InlineIffAllScalars ==
    (lines.some /\ params.some) =>
        /\ Len(lines.val) = EntriesLines(params.val)
        /\ \A k \in DOMAIN params.val :
               LET key == params.val[k][1]
                   val == params.val[k][2]
                   L == lines.val
                   s == EntryStart(k)
                   ind == repeat(INDENT, depth)
               IN  val.t = "Array" =>
                       /\ L[s].key = key
                       /\ L[s].indent = ind
                       /\ L[s].form = "value" <=> OnlyScalars(val.items)
                       /\ L[s].form = "array" <=> ~OnlyScalars(val.items)
                       /\ OnlyScalars(val.items) =>
                              /\ EntryStart(k + 1) = s + 1
                              /\ L[s].arg = String(Joined(val.items))
                              /\ IsPrefixOf(L[s].text, Joined(val.items))
                              /\ Compact => Len(L[s].text) <= Remaining(L[s])
                              /\ (~Compact \/ Len(Joined(val.items)) <= Remaining(L[s]))
                                     => L[s].text = Joined(val.items)
                       /\ ~OnlyScalars(val.items) =>
                              \A j \in DOMAIN val.items :
                                  LET item == val.items[j]
                                      b == ItemStart(s, val.items, j)
                                  IN  /\ L[b].form = "bullet"
                                      /\ L[b].indent = ind \o INDENT
                                      /\ IF item.t = "Object"
                                         THEN /\ L[b].text = <<>>
                                              /\ SubSeq(L, b + 1,
                                                        b + EntriesLines(item.entries))
                                                   = print_params(
                                                         Some(item.entries), depth + 2,
                                                         pdebug, width,
                                                         show_full_tool_output)
                                         ELSE L[b].text = to_json(item)

\* in Compact mode, a multi-line array with an object and with a string
\* wider than the terminal, next to an inline array that was cut
C15_Witness ==
    /\ lines.some
    /\ params.some
    /\ Compact
    /\ \E k \in DOMAIN params.val :
           LET val == params.val[k][2]
           IN  /\ val.t = "Array"
               /\ \E j \in DOMAIN val.items : val.items[j].t = "Object"
               /\ \E j \in DOMAIN val.items :
                      /\ val.items[j].t = "String"
                      /\ lines.val[ItemStart(EntryStart(k), val.items, j)].text
                             = to_json(val.items[j])
                      /\ Len(to_json(val.items[j])) > width.val
    /\ \E k \in DOMAIN params.val :
           LET val == params.val[k][2]
           IN  /\ val.t = "Array"
               /\ Len(val.items) = 2
               /\ OnlyScalars(val.items)
               /\ lines.val[EntryStart(k)].text # Joined(val.items)

\* the keys of the value tree in pre-order, each with the indentation of its
\* depth and with whether its value is an object
RECURSIVE PreOrder(_, _)
RECURSIVE PreOrderItems(_, _)
PreOrderItems(items, d) ==
    IF items = <<>> THEN <<>>
    ELSE (IF Head(items).t = "Object"
          THEN PreOrder(Head(items).entries, d + 2) ELSE <<>>)
         \o PreOrderItems(Tail(items), d)

PreOrder(entries, d) ==
    IF entries = <<>> THEN <<>>
    ELSE LET key == Head(entries)[1]
             val == Head(entries)[2]
         IN  <<[key |-> key, indent |-> repeat(INDENT, d),
                object |-> val.t = "Object"]>>
             \o (CASE val.t = "Object" -> PreOrder(val.entries, d + 1)
                   [] val.t = "Array" -> PreOrderItems(val.items, d)
                   [] OTHER -> <<>>)
             \o PreOrder(Tail(entries), d)

\* the key lines among the printed lines, in the order printed
RECURSIVE KeyTrace(_)
KeyTrace(L) ==
    IF L = <<>> THEN <<>>
    ELSE (IF Head(L).form = "bullet" THEN <<>>
          ELSE <<[key |-> Head(L).key, indent |-> Head(L).indent,
                  object |-> Head(L).form = "object" /\ Head(L).text = <<>>]>>)
         \o KeyTrace(Tail(L))

\* C16: every key of an object printed at depth d has its line at an indent
\* of d units; a key with an object value prints `key:` alone and then the
\* entries of that object at depth d + 1, before the next sibling; the keys
\* come out in stored order, that is in pre-order of the value tree.
C16_KeysInPreOrder ==
    (lines.some /\ params.some) =>
        KeyTrace(lines.val) = PreOrder(params.val, depth)

\* an object in an object, printed before the sibling that follows them
C16_Witness ==
    /\ lines.some
    /\ params.some
    /\ Len(params.val) = 2
    /\ \E i \in DOMAIN lines.val :
           /\ i + 3 <= Len(lines.val)
           /\ lines.val[i].form = "object"
           /\ lines.val[i].indent = repeat(INDENT, depth)
           /\ lines.val[i + 2].form = "object"
           /\ lines.val[i + 2].indent = repeat(INDENT, depth + 1)
           /\ lines.val[i + 3].indent = repeat(INDENT, depth + 2)
           /\ lines.val[Len(lines.val)].indent = repeat(INDENT, depth)
           /\ lines.val[Len(lines.val)].key = params.val[2][1]

\* the values handed to print_value and the texts printed for them
UnreachableIn(text) == \E i \in DOMAIN text : text[i] = Unreachable[1]

\* C21: whatever object print_params is given, neither unreachable!() is
\* executed: print_value only gets a String, Number, Bool or Null, and the
\* closure of the inline array only gets scalar items.
C21_UnreachableNeverExecuted ==
    lines.some =>
        \A i \in DOMAIN lines.val :
            LET l == lines.val[i]
            IN  /\ l.form = "value" =>
                       /\ l.arg.t \in ScalarKinds
                       /\ l.arg.t = "String" => ~UnreachableIn(l.arg.s)
                /\ ~UnreachableIn(l.text)

\* an object with an empty object and with an array of an object and a
\* scalar, all printed
C21_Witness ==
    /\ lines.some
    /\ params.some
    /\ Len(params.val) = 2
    /\ params.val[1][2] = Object(<<>>)
    /\ params.val[2][2].t = "Array"
    /\ \E j \in DOMAIN params.val[2][2].items :
           params.val[2][2].items[j].t = "Object"
    /\ \E j \in DOMAIN params.val[2][2].items :
           params.val[2][2].items[j].t \in ScalarKinds
    /\ \E i \in DOMAIN lines.val : lines.val[i].form = "value"

\* C22: after every push and flush the retained buffer holds no double
\* newline: a paragraph boundary does not stay buffered after the call that
\* completed it.
C22_NoBoundaryRetained == ~HasDoubleNewline(buffer)

\* a push that returned a paragraph and retained text with a newline in it
C22_Witness ==
    /\ op = "push"
    /\ ret.some
    /\ HasDoubleNewline(ret.val)
    /\ \E i \in DOMAIN buffer : buffer[i] = NL
    /\ \E i \in DOMAIN buffer : buffer[i] # NL

\* the operations that return at once when quiet is set
QuietOps ==
    {"render_message", "finish", "render_text", "render_text_raw",
     "render_header", "render_prompts", "render_prompt_info",
     "goose_mode_message", "render_enter_plan_mode", "render_act_on_plan",
     "render_exit_plan_mode", "render_extension_success",
     "render_builtin_success", "render_subagent_tool_call",
     "display_session_info", "display_greeting"}

\* C23: while quiet is set, each of these operations writes nothing, makes
\* no spacing transition and leaves last_rendered and text_messages as they
\* were, whatever was called before.
C23_QuietOpsDoNothing ==
    [][(quiet /\ sop' \in QuietOps) =>
           /\ out' = <<>>
           /\ calls' = <<>>
           /\ last_rendered' = last_rendered
           /\ text_messages' = text_messages
           /\ quiet' = quiet]_vars

\* finish under quiet, with text buffered and a block rendered before quiet
\* was set
C23_Witness ==
    /\ quiet
    /\ sop = "finish"
    /\ out = <<>>
    /\ text_messages # <<>>
    /\ last_rendered \notin {"Empty", "Text"}

====
